---- MODULE Spec2Model ----
(***************************************************************************)
(* Model of the AWS Lambda handler of src/lambda/index.js, which proxies a *)
(* client request to an Infura endpoint.                                   *)
(*                                                                         *)
(* The state holds two runs of the handler side by side.  Both runs get    *)
(* the same event, the same ALLOW_ORIGIN and the same upstream behaviour;  *)
(* only INFURA_ENDPOINT may differ.  Every property about "the handler" is *)
(* stated for each run; the pairing serves the claim that compares runs.   *)
(*                                                                         *)
(* JavaScript values of differing types are tagged records [t, v], so that *)
(* values of different types can be compared.                              *)
(***************************************************************************)
EXTENDS Integers, Sequences, FiniteSets, TLC

VARIABLES
    INFURA_ENDPOINT,  \* per run: process.env.INFURA_ENDPOINT
    ALLOW_ORIGIN,     \* process.env.ALLOW_ORIGIN
    event,            \* the inbound event: [httpMethod, body]
    pc,               \* per run: "init", "awaitFetch", "awaitJson", "done"
    response,         \* per run: the try-block binding `response`
    outbound,         \* per run: sequence of the fetch calls issued
    upstream,         \* what the upstream did with the forwarded call
    result            \* per run: settlement of the promise the handler returns

vars == <<INFURA_ENDPOINT, ALLOW_ORIGIN, event, pc, response, outbound,
          upstream, result>>

Runs == {1, 2}

----------------------------------------------------------------------------
(* Bounds of the input domains.                                            *)

\* Longest array / largest number of object members in an upstream body.
MaxLen == 2

----------------------------------------------------------------------------
(* JavaScript values and texts.                                            *)

\* The JavaScript value undefined where a string is expected (an unset
\* environment variable, a missing property); differs from every string.
UNDEFINED == "<undefined>"

\* Texts (HTTP bodies).  A JSON text is kept as its syntax tree, a number as
\* its literal: mantissa and decimal exponent, as written.
EmptyText == [t |-> "empty", v |-> 0]           \* ""
InvalidText == [t |-> "invalid", v |-> 0]       \* text that is not JSON
UndefinedText == [t |-> "undefined", v |-> 0]   \* no body at all
JNull == [t |-> "null", v |-> 0]
JNum(m, e) == [t |-> "number", v |-> <<m, e>>]
JStr(s) == [t |-> "string", v |-> s]
JArr(items) == [t |-> "array", v |-> items]
JObj(members) == [t |-> "object", v |-> members]  \* <<key, text>> pairs

\* Values JSON.parse produces.
VNull == [t |-> "null", v |-> 0]
VNum(n) == [t |-> "number", v |-> n]
VInfinity(sign) == [t |-> "Infinity", v |-> sign]
VStr(s) == [t |-> "string", v |-> s]
VArr(items) == [t |-> "array", v |-> items]
VObj(props) == [t |-> "object", v |-> props]     \* <<key, value>>, keys unique

\* Completion of an evaluation: a value, or a thrown error.
Normal(v) == [t |-> "normal", v |-> v]
Throw(e) == [t |-> "throw", v |-> e]
Error(name, message) == [name |-> name, message |-> message]

----------------------------------------------------------------------------
(* JSON.parse and JSON.stringify, as response.json() and the handler use   *)
(* them.  Numbers are IEEE doubles: a literal beyond the double range      *)
(* parses to Infinity, which JSON.stringify writes as null.  The literals  *)
(* of the input domain have a one-digit mantissa.                          *)

\* Largest decimal exponent of a finite double (Number.MAX_VALUE ~ 1.79e308).
MaxExp10 == 308

Abs(n) == IF n < 0 THEN -n ELSE n

RECURSIVE Pow10(_)
Pow10(e) == IF e = 0 THEN 1 ELSE 10 * Pow10(e - 1)

Overflows(m, e) == m # 0 /\ (e > MaxExp10 \/ (e = MaxExp10 /\ Abs(m) > 1))

IsJSON(text) == text.t \in {"null", "number", "string", "array", "object"}

\* A property assignment on an object: a repeated key overwrites in place.
SetProp(props, k, val) ==
    IF \E i \in DOMAIN props : props[i][1] = k
    THEN [i \in DOMAIN props |-> IF props[i][1] = k THEN <<k, val>> ELSE props[i]]
    ELSE Append(props, <<k, val>>)

RECURSIVE JSONParseValue(_)
RECURSIVE JSONParseMembers(_, _)
JSONParseValue(text) ==
    CASE text.t = "null" -> VNull
      [] text.t = "number" ->
            IF Overflows(text.v[1], text.v[2])
            THEN VInfinity(IF text.v[1] < 0 THEN -1 ELSE 1)
            ELSE VNum(text.v[1] * Pow10(text.v[2]))
      [] text.t = "string" -> VStr(text.v)
      [] text.t = "array" ->
            VArr([i \in DOMAIN text.v |-> JSONParseValue(text.v[i])])
      [] text.t = "object" -> VObj(JSONParseMembers(<<>>, text.v))

JSONParseMembers(props, members) ==
    IF members = <<>> THEN props
    ELSE JSONParseMembers(
            SetProp(props, Head(members)[1], JSONParseValue(Head(members)[2])),
            Tail(members))

JSONParse(text) ==
    IF IsJSON(text) THEN Normal(JSONParseValue(text))
    ELSE Throw(Error("SyntaxError",
                     IF text = EmptyText THEN "Unexpected end of JSON input"
                     ELSE "Unexpected token in JSON at position 0"))

RECURSIVE JSONStringify(_)
JSONStringify(val) ==
    CASE val.t = "null" -> JNull
      [] val.t = "number" -> JNum(val.v, 0)
      [] val.t = "Infinity" -> JNull
      [] val.t = "string" -> JStr(val.v)
      [] val.t = "array" ->
            JArr([i \in DOMAIN val.v |-> JSONStringify(val.v[i])])
      [] val.t = "object" ->
            JObj([i \in DOMAIN val.v |-> <<val.v[i][1], JSONStringify(val.v[i][2])>>])

\* Structural equality of parsed values: arrays by position, objects by key,
\* whatever the order of the keys.
RECURSIVE Canon(_)
Canon(val) ==
    CASE val.t = "array" -> VArr([i \in DOMAIN val.v |-> Canon(val.v[i])])
      [] val.t = "object" ->
            VObj([k \in {val.v[i][1] : i \in DOMAIN val.v} |->
                    Canon(val.v[CHOOSE i \in DOMAIN val.v : val.v[i][1] = k][2])])
      [] OTHER -> val

StructEq(a, b) == Canon(a) = Canon(b)

----------------------------------------------------------------------------
(* Input domains.                                                          *)

\* Values of INFURA_ENDPOINT: unset, a URL without scheme, two valid URLs
\* that differ in the API key.
ValidEndpoints == {"https://mainnet.infura.io/v3/KEY-A",
                   "https://mainnet.infura.io/v3/KEY-B"}
Endpoints == {UNDEFINED, "mainnet.infura.io/v3/KEY-A"} \cup ValidEndpoints

AllowOrigins == {UNDEFINED, "", "https://app.example"}

Methods == {"OPTIONS", "POST", "GET", "post", UNDEFINED}

\* {"jsonrpc":"2.0","method":"eth_blockNumber","id":1}
RpcRequest == JObj(<< <<"jsonrpc", JStr("2.0")>>,
                      <<"method", JStr("eth_blockNumber")>>,
                      <<"id", JNum(1, 0)>> >>)

InboundBodies == {UndefinedText, InvalidText, RpcRequest}

Events == [httpMethod : Methods, body : InboundBodies]

SeqsUpTo(S, n) == UNION {[1..k -> S] : k \in 0..n}

\* {"jsonrpc":"2.0","id":1,"result":"0x10"}
RpcResult == JObj(<< <<"jsonrpc", JStr("2.0")>>,
                     <<"id", JNum(1, 0)>>,
                     <<"result", JStr("0x10")>> >>)

\* Upstream bodies that are JSON: null, scalars, arrays and objects of
\* scalars (object keys may repeat), and two nested samples.
Scalars == {JNum(1, 0), JNum(1, 400), JStr("0x10")}
Keys == {"id", "result"}
Flat == {JArr(s) : s \in SeqsUpTo(Scalars, MaxLen)}
          \cup {JObj(s) : s \in SeqsUpTo(Keys \X Scalars, MaxLen)}
Samples == {RpcResult,
            JObj(<< <<"result", JArr(<<JNull, JObj(<<>>)>>)>> >>)}
JsonTexts == {JNull} \cup Scalars \cup Flat \cup Samples

StatusText(status) ==
    CASE status = 200 -> "OK"
      [] status = 201 -> "Created"
      [] status = 404 -> "Not Found"
      [] status = 503 -> "Service Unavailable"

SuccessStatuses == {200, 201}
FailureStatuses == {404, 503}
NotJsonTexts == {EmptyText, InvalidText}
FailureBodies == {EmptyText, InvalidText, JObj(<< <<"error", JStr("x")>> >>)}

\* What the upstream answers.  The reason phrase may be absent (HTTP/2).
UpstreamResponses ==
    UNION {{[status |-> s, statusText |-> StatusText(s), body |-> b] :
               b \in JsonTexts \cup NotJsonTexts} : s \in SuccessStatuses}
    \cup
    UNION {{[status |-> s, statusText |-> txt, body |-> b] :
               txt \in {StatusText(s), ""}, b \in FailureBodies} :
           s \in FailureStatuses}

NoUpstream == [t |-> "none", v |-> 0]
Responded(r) == [t |-> "response", v |-> r]
NetworkError == [t |-> "networkError", v |-> 0]

----------------------------------------------------------------------------
(* The runtime's fetch.                                                    *)

StringOf(x) == IF x = UNDEFINED THEN "undefined" ELSE x

IsValidURL(url) == url \in ValidEndpoints

\* The Response object fetch resolves to.
Response(r) == [ok |-> r.status \in 200..299, status |-> r.status,
                statusText |-> r.statusText, body |-> r.body]

\* Completion of `await fetch(url, init)` when the upstream does `up`.
Fetch(url, up) ==
    IF ~IsValidURL(url)
    THEN Throw(Error("TypeError", "Failed to parse URL from " \o StringOf(url)))
    ELSE IF up = NetworkError
         THEN Throw(Error("TypeError", "fetch failed"))
         ELSE Normal(Response(up.v))

----------------------------------------------------------------------------
(* The handler.                                                            *)

\* The block-scoped `const response` of the try block.
Unbound == [t |-> "unbound", v |-> 0]
Bound(resp) == [t |-> "Response", v |-> resp]

\* Settlement of the promise the async handler returns.
Pending == [t |-> "pending", v |-> 0]
Fulfilled(v) == [t |-> "fulfilled", v |-> v]
Rejected(e) == [t |-> "rejected", v |-> e]
Settle(c) == IF c.t = "normal" THEN Fulfilled(c.v) ELSE Rejected(c.v)

JsonContentType == "Content-Type" :> "application/json"

commonHeaders_or ==
    ("Access-Control-Allow-Credentials" :> "true")
    @@ ("Access-Control-Allow-Origin" :>
            IF ALLOW_ORIGIN \in {UNDEFINED, ""} THEN "*" ELSE ALLOW_ORIGIN)

\* { ..., "Access-Control-Allow-Origin": ALLOW_ORIGIN ?? "*" }
commonHeaders ==
    ("Access-Control-Allow-Credentials" :> "true")
    @@ ("Access-Control-Allow-Origin" :>
            IF ALLOW_ORIGIN = UNDEFINED THEN "*" ELSE ALLOW_ORIGIN)

\* { error: { message } }
ErrorPayload(message) ==
    VObj(<< <<"error", VObj(<< <<"message", VStr(message)>> >>)>> >>)

\* The identifiers the body of errorResponse can resolve: its parameter, the
\* bindings of the handler's function scope, the module's and the globals it
\* uses.  `response` is declared inside the try block, which is not an
\* enclosing scope of errorResponse, and no global has that name.
ErrorResponseScope ==
    {"message", "commonHeaders", "errorResponse", "INFURA_ENDPOINT",
     "ALLOW_ORIGIN", "event", "handler", "JSON", "process", "fetch", "console"}

errorResponse_bound(tryResponse, message) ==
    Normal([body |-> JSONStringify(ErrorPayload(message)),
            headers |-> commonHeaders @@ JsonContentType,
            isBase64Encoded |-> FALSE,
            statusCode |-> IF tryResponse.t = "Response"
                           THEN tryResponse.v.status ELSE 502])

\* Completion of a call errorResponse(message), made while the try block's
\* `response` is tryResponse.
errorResponse(tryResponse, message) ==
    IF "response" \in ErrorResponseScope
    THEN Normal([body |-> JSONStringify(ErrorPayload(message)),
                 headers |-> commonHeaders @@ JsonContentType,
                 isBase64Encoded |-> FALSE,
                 statusCode |-> tryResponse.v.status])
    ELSE Throw(Error("ReferenceError", "response is not defined"))

OptionsResponse_204 ==
    [body |-> EmptyText,
     headers |-> commonHeaders
                 @@ ("Access-Control-Allow-Headers" :> "Authorization,Content-type")
                 @@ ("Access-Control-Allow-Methods" :> "OPTIONS,POST"),
     isBase64Encoded |-> FALSE,
     statusCode |-> 204]

\* The object returned for the CORS preflight.
OptionsResponse ==
    [body |-> EmptyText,
     headers |-> commonHeaders
                 @@ ("Access-Control-Allow-Headers" :> "Authorization,Content-type")
                 @@ ("Access-Control-Allow-Methods" :> "OPTIONS,POST"),
     isBase64Encoded |-> FALSE,
     statusCode |-> 200]

MethodNotAllowedResponse_json ==
    [body |-> EmptyText,
     headers |-> commonHeaders @@ JsonContentType,
     isBase64Encoded |-> FALSE,
     statusCode |-> 405]

\* The object returned for a method that is neither OPTIONS nor POST.
MethodNotAllowedResponse ==
    [body |-> EmptyText,
     headers |-> commonHeaders,
     isBase64Encoded |-> FALSE,
     statusCode |-> 405]

IsPost_any(method) == TRUE

\* The negation of the test `event.httpMethod !== "POST"`.
IsPost(method) == method = "POST"

FetchCall_validated(r) ==
    [url |-> INFURA_ENDPOINT[r],
     method |-> "POST",
     headers |-> JsonContentType,
     body |-> IF IsJSON(event.body) THEN event.body ELSE UndefinedText]

\* The arguments of the call to fetch.
FetchCall(r) ==
    [url |-> INFURA_ENDPOINT[r],
     method |-> "POST",
     headers |-> JsonContentType,
     body |-> event.body]

\* The object returned once the upstream's payload is parsed.
SuccessResponse(resp, payload) ==
    [body |-> JSONStringify(payload),
     headers |-> commonHeaders @@ JsonContentType,
     isBase64Encoded |-> FALSE,
     statusCode |-> resp.status]

\* The catch clause: console.debug(error); return errorResponse(error.message)
Catch(tryResponse, error) == errorResponse(tryResponse, error.message)

\* A run from its start to its first await or return.
StartRun(r) ==
    IF event.httpMethod = "OPTIONS"
    THEN [pc |-> "done", outbound |-> <<>>, result |-> Fulfilled(OptionsResponse)]
    ELSE IF ~IsPost(event.httpMethod)
    THEN [pc |-> "done", outbound |-> <<>>,
          result |-> Fulfilled(MethodNotAllowedResponse)]
    ELSE [pc |-> "awaitFetch", outbound |-> <<FetchCall(r)>>, result |-> Pending]

\* A run from the settlement of fetch to its next await or return.
AfterFetch(r, c) ==
    IF c.t = "throw"
    THEN [pc |-> "done", response |-> Unbound,
          result |-> Settle(Catch(Unbound, c.v))]
    ELSE IF ~c.v.ok
    THEN LET e == errorResponse(Bound(c.v), c.v.statusText)
         IN  [pc |-> "done", response |-> Bound(c.v),
              result |-> IF e.t = "normal" THEN Fulfilled(e.v)
                         ELSE Settle(Catch(Bound(c.v), e.v))]
    ELSE [pc |-> "awaitJson", response |-> Bound(c.v), result |-> Pending]

\* A run from the settlement of response.json() to its return.
AfterJson(r) ==
    LET c == JSONParse(response[r].v.body)
    IN  IF c.t = "throw"
        THEN Settle(Catch(response[r], c.v))
        ELSE Fulfilled(SuccessResponse(response[r].v, c.v))

Init ==
    /\ INFURA_ENDPOINT \in [Runs -> Endpoints]
    /\ ALLOW_ORIGIN \in AllowOrigins
    /\ event \in Events
    /\ pc = [r \in Runs |-> "init"]
    /\ response = [r \in Runs |-> Unbound]
    /\ outbound = [r \in Runs |-> <<>>]
    /\ upstream = NoUpstream
    /\ result = [r \in Runs |-> Pending]

\* The platform invokes the handler.
Start ==
    /\ \A r \in Runs : pc[r] = "init"
    /\ pc' = [r \in Runs |-> StartRun(r).pc]
    /\ outbound' = [r \in Runs |-> StartRun(r).outbound]
    /\ result' = [r \in Runs |-> StartRun(r).result]
    /\ UNCHANGED <<INFURA_ENDPOINT, ALLOW_ORIGIN, event, response, upstream>>

\* Both runs, continued from the settlement of fetch when the upstream does up.
Continued(up) ==
    [r \in Runs |-> AfterFetch(r, Fetch(INFURA_ENDPOINT[r], up))]

\* The upstream answers.
FetchResponded ==
    \E resp \in UpstreamResponses :
        /\ \A r \in Runs : pc[r] = "awaitFetch"
        /\ upstream' = Responded(resp)
        /\ pc' = [r \in Runs |-> Continued(Responded(resp))[r].pc]
        /\ response' = [r \in Runs |-> Continued(Responded(resp))[r].response]
        /\ result' = [r \in Runs |-> Continued(Responded(resp))[r].result]
        /\ UNCHANGED <<INFURA_ENDPOINT, ALLOW_ORIGIN, event, outbound>>

\* The upstream cannot be reached.
FetchFailed ==
    /\ \A r \in Runs : pc[r] = "awaitFetch"
    /\ upstream' = NetworkError
    /\ pc' = [r \in Runs |-> Continued(NetworkError)[r].pc]
    /\ response' = [r \in Runs |-> Continued(NetworkError)[r].response]
    /\ result' = [r \in Runs |-> Continued(NetworkError)[r].result]
    /\ UNCHANGED <<INFURA_ENDPOINT, ALLOW_ORIGIN, event, outbound>>

\* response.json() settles.
JsonSettled ==
    /\ \E r \in Runs : pc[r] = "awaitJson"
    /\ pc' = [r \in Runs |-> IF pc[r] = "awaitJson" THEN "done" ELSE pc[r]]
    /\ result' = [r \in Runs |->
                    IF pc[r] = "awaitJson" THEN AfterJson(r) ELSE result[r]]
    /\ UNCHANGED <<INFURA_ENDPOINT, ALLOW_ORIGIN, event, response, outbound,
                   upstream>>

Next == Start \/ FetchResponded \/ FetchFailed \/ JsonSettled

Spec == Init /\ [][Next]_vars

----------------------------------------------------------------------------
(* Properties.                                                             *)

Done(r) == pc[r] = "done"
Returned(r) == result[r].t = "fulfilled"

\* The two CORS headers, written out from the configuration.
TwoCorsHeaders ==
    [h \in {"Access-Control-Allow-Credentials", "Access-Control-Allow-Origin"} |->
        IF h = "Access-Control-Allow-Credentials" THEN "true"
        ELSE IF ALLOW_ORIGIN = UNDEFINED THEN "*" ELSE ALLOW_ORIGIN]

CorsAndJsonHeaders ==
    [h \in {"Access-Control-Allow-Credentials", "Access-Control-Allow-Origin",
            "Content-Type"} |->
        IF h = "Content-Type" THEN "application/json" ELSE TwoCorsHeaders[h]]

\* The JSON text {"error":{"message":<message>}}
ErrorPayloadText(message) ==
    JObj(<< <<"error", JObj(<< <<"message", JStr(message)>> >>)>> >>)

\* The run got an upstream response / the call to fetch threw.
GotResponse(r) == response[r].t = "Response"
FetchThrew(r) ==
    /\ Done(r)
    /\ event.httpMethod = "POST"
    /\ response[r] = Unbound

\* C1: when a POST run gets an upstream response with a non-success status S
\* and status text T, it returns statusCode S, the body
\* {"error":{"message":T}} and the two CORS headers plus Content-Type.
C1_UpstreamFailureRelayed ==
    \A r \in Runs :
        (Done(r) /\ GotResponse(r) /\ ~response[r].v.ok) =>
            /\ Returned(r)
            /\ result[r].v.statusCode = response[r].v.status
            /\ result[r].v.body = ErrorPayloadText(response[r].v.statusText)
            /\ result[r].v.headers = CorsAndJsonHeaders

\* C2: every run ends by returning a response object; the promise of the
\* handler is never rejected.
C2_NeverRejects ==
    \A r \in Runs :
        /\ result[r].t # "rejected"
        /\ Done(r) => Returned(r)

\* C3: when the call to fetch of a POST run throws, the run returns an
\* ErrorPayload whose message is the exception's message, with a definite
\* integer status code.
C3_FetchThrowHasStatus ==
    \A r \in Runs :
        FetchThrew(r) =>
            /\ Returned(r)
            /\ result[r].v.body =
                  ErrorPayloadText(Fetch(INFURA_ENDPOINT[r], upstream).v.message)
            /\ result[r].v.statusCode \in 100..599

\* C4: when a POST run gets a success status S and a JSON body B, it returns
\* statusCode S, the CORS headers plus Content-Type, and a body that parses
\* to a value structurally equal to B.
C4_SuccessBodyEquivalent ==
    \A r \in Runs :
        (Done(r) /\ GotResponse(r) /\ response[r].v.ok
            /\ IsJSON(response[r].v.body)) =>
            /\ Returned(r)
            /\ result[r].v.statusCode = response[r].v.status
            /\ result[r].v.headers = CorsAndJsonHeaders
            /\ IsJSON(result[r].v.body)
            /\ StructEq(JSONParse(result[r].v.body).v,
                        JSONParse(response[r].v.body).v)

\* C5: every response a run returns carries Access-Control-Allow-Credentials
\* "true" and Access-Control-Allow-Origin equal to ALLOW_ORIGIN, or "*" when
\* ALLOW_ORIGIN is unset.
C5_CorsOnEveryResponse ==
    \A r \in Runs :
        Returned(r) =>
            /\ DOMAIN TwoCorsHeaders \subseteq DOMAIN result[r].v.headers
            /\ \A h \in DOMAIN TwoCorsHeaders :
                  result[r].v.headers[h] = TwoCorsHeaders[h]

C5_Witness ==
    \E r \in Runs :
        /\ Returned(r)
        /\ GotResponse(r)
        /\ ALLOW_ORIGIN = ""

\* C6: an OPTIONS run, whatever the body, returns statusCode 200, an empty
\* body, isBase64Encoded false and exactly the two CORS headers plus
\* Access-Control-Allow-Headers and Access-Control-Allow-Methods.
C6_Preflight ==
    \A r \in Runs :
        (Done(r) /\ event.httpMethod = "OPTIONS") =>
            result[r] = Fulfilled(
                [body |-> EmptyText,
                 headers |->
                    [h \in {"Access-Control-Allow-Credentials",
                            "Access-Control-Allow-Origin",
                            "Access-Control-Allow-Headers",
                            "Access-Control-Allow-Methods"} |->
                        CASE h = "Access-Control-Allow-Headers" ->
                                "Authorization,Content-type"
                          [] h = "Access-Control-Allow-Methods" -> "OPTIONS,POST"
                          [] OTHER -> TwoCorsHeaders[h]],
                 isBase64Encoded |-> FALSE,
                 statusCode |-> 200])

C6_Witness ==
    \E r \in Runs :
        /\ Done(r)
        /\ event.httpMethod = "OPTIONS"
        /\ event.body = InvalidText
        /\ Returned(r)

\* C7: a run whose method is neither OPTIONS nor POST returns statusCode 405,
\* an empty body and exactly the two CORS headers.
C7_MethodNotAllowed ==
    \A r \in Runs :
        (Done(r) /\ event.httpMethod \notin {"OPTIONS", "POST"}) =>
            /\ Returned(r)
            /\ result[r].v.statusCode = 405
            /\ result[r].v.body = EmptyText
            /\ result[r].v.headers = TwoCorsHeaders

C7_Witness ==
    \E r \in Runs :
        /\ Done(r)
        /\ event.httpMethod = "post"
        /\ Returned(r)
        /\ result[r].v.statusCode = 405

\* The two runs saw the same upstream outcome: no call, or a call that
\* failed in both, or a call that got the same response in both.
SameUpstreamOutcome ==
    \/ upstream = NoUpstream
    \/ Fetch(INFURA_ENDPOINT[1], upstream).t = Fetch(INFURA_ENDPOINT[2], upstream).t

\* C8: two runs that differ only in INFURA_ENDPOINT and see the same upstream
\* outcome settle identically (status, headers, body, error message).
C8_EndpointNotRevealed ==
    (Done(1) /\ Done(2) /\ SameUpstreamOutcome) => result[1] = result[2]

C8_Witness ==
    /\ Done(1) /\ Done(2)
    /\ INFURA_ENDPOINT[1] # INFURA_ENDPOINT[2]
    /\ event.httpMethod = "POST"
    /\ upstream # NoUpstream
    /\ SameUpstreamOutcome
    /\ Returned(1)

\* C9: a run calls fetch at most once: once it has started, exactly once if
\* the method is POST and never otherwise, also after the call has failed or
\* got a non-success status.
C9_AtMostOneOutboundCall ==
    \A r \in Runs :
        /\ Len(outbound[r]) <= 1
        /\ pc[r] # "init" =>
              Len(outbound[r]) = IF event.httpMethod = "POST" THEN 1 ELSE 0

C9_Witness ==
    \E r \in Runs :
        /\ Done(r)
        /\ upstream = NetworkError
        /\ Len(outbound[r]) = 1

\* C10: the call a POST run makes targets INFURA_ENDPOINT with method POST,
\* the header Content-Type: application/json and the inbound body as it
\* came, valid JSON or not.
C10_BodyForwardedVerbatim ==
    \A r \in Runs :
        (pc[r] # "init" /\ event.httpMethod = "POST") =>
            outbound[r] = << [url |-> INFURA_ENDPOINT[r],
                              method |-> "POST",
                              headers |-> [h \in {"Content-Type"} |->
                                              "application/json"],
                              body |-> event.body] >>

C10_Witness ==
    \E r \in Runs :
        /\ pc[r] = "awaitFetch"
        /\ event.httpMethod = "POST"
        /\ event.body = InvalidText
        /\ Len(outbound[r]) = 1

====
